---------------------------- MODULE Spec2Model ----------------------------
(***************************************************************************)
(* National Strategy Dashboard (src/src/App.js): the data pipeline of the  *)
(* EnhancedDashboard component -- workbook load, sheet normalisation,      *)
(* config look-ups, filtering, grouping and export -- as a state machine.  *)
(*                                                                         *)
(* A JavaScript string is a sequence of one-character strings; a cell or   *)
(* field value is a record [k, s]: k is its JavaScript type and s the      *)
(* characters of String(value).  An operation that can raise a TypeError   *)
(* returns a record with a "threw" field.                                  *)
(***************************************************************************)
EXTENDS Naturals, Sequences, FiniteSets

VARIABLES
    wb,                 \* the workbook behind XLSX_URL (the input of the session)
    load,               \* the load effect: "pending", "resolved" or "rejected"
    alerts,             \* number of failure notices raised by alert(...)
    tabs,               \* useState([])   : names of the data sheets
    rowsByTab,          \* useState({})   : tab name -> records
    tabIdx,             \* useState(0)    : 0-based index of the active tab
    loading,            \* useState(true)
    portfolios,         \* useState([])   : selected portfolio names
    portfolioOptions,   \* useState([])
    portfolioColours,   \* useState(new Map())
    tags,               \* useState([])   : selected tag names
    tagOptions,         \* useState([])
    tagColours,         \* useState(new Map())
    query,              \* useState('')   : free-text query
    exported            \* what the last handleExport put in the document

vars == <<wb, load, alerts, tabs, rowsByTab, tabIdx, loading, portfolios,
          portfolioOptions, portfolioColours, tags, tagOptions, tagColours,
          query, exported>>

-----------------------------------------------------------------------------
(* Strings                                                                 *)

UpperCase == <<"A","B","C","D","E","F","G","H","I","J","K","L","M",
               "N","O","P","Q","R","S","T","U","V","W","X","Y","Z">>
LowerCase == <<"a","b","c","d","e","f","g","h","i","j","k","l","m",
               "n","o","p","q","r","s","t","u","v","w","x","y","z">>
Digits == <<"0","1","2","3","4","5","6","7","8","9">>

\* The characters String.prototype.trim removes.
WhiteSpace == {" ", "\t", "\n"}

Range(f) == {f[i] : i \in DOMAIN f}

\* upper-case letter -> lower-case letter
LowerOf ==
    [c \in Range(UpperCase) |->
        LowerCase[CHOOSE i \in DOMAIN UpperCase : UpperCase[i] = c]]

toLowerCaseChar(c) == IF c \in DOMAIN LowerOf THEN LowerOf[c] ELSE c

\* String.prototype.toLowerCase
toLowerCase(s) == [i \in 1..Len(s) |-> toLowerCaseChar(s[i])]

RECURSIVE trimStart(_)
trimStart(s) ==
    IF s # <<>> /\ Head(s) \in WhiteSpace THEN trimStart(Tail(s)) ELSE s

RECURSIVE trimEnd(_)
trimEnd(s) ==
    IF s # <<>> /\ s[Len(s)] \in WhiteSpace
    THEN trimEnd(SubSeq(s, 1, Len(s) - 1))
    ELSE s

\* String.prototype.trim
strTrim(s) == trimEnd(trimStart(s))

\* String.prototype.split(sep) for a one-character separator: the scan from
\* character i on, cur being the part read so far
RECURSIVE splitFrom(_, _, _, _)
splitFrom(s, sep, i, cur) ==
    IF i > Len(s) THEN <<cur>>
    ELSE IF s[i] = sep THEN <<cur>> \o splitFrom(s, sep, i + 1, <<>>)
    ELSE splitFrom(s, sep, i + 1, Append(cur, s[i]))

split(s, sep) == splitFrom(s, sep, 1, <<>>)

\* String.prototype.includes
includes(s, sub) ==
    \E i \in 0..Len(s) :
        i + Len(sub) <= Len(s) /\ SubSeq(s, i + 1, i + Len(sub)) = sub

\* String.prototype.startsWith
startsWith(s, pre) == Len(pre) <= Len(s) /\ SubSeq(s, 1, Len(pre)) = pre

\* String(n) for a natural number n
RECURSIVE natToString(_)
natToString(n) ==
    IF n < Len(Digits) THEN <<Digits[n + 1]>>
    ELSE natToString(n \div Len(Digits)) \o <<Digits[(n % Len(Digits)) + 1]>>

-----------------------------------------------------------------------------
(* JavaScript values                                                       *)

Str(s) == [k |-> "string", s |-> s]
Num(s) == [k |-> "number", s |-> s]
undefined == [k |-> "undefined", s |-> <<>>]

\* String(v)
stringOf(v) ==
    IF v.k = "undefined" THEN <<"u","n","d","e","f","i","n","e","d">> ELSE v.s

\* JavaScript truthiness of a cell value
truthy(v) ==
    CASE v.k = "string" -> v.s # <<>>
      [] v.k = "number" -> v.s # <<"0">>
      [] OTHER -> FALSE

\* const trim = (v) => (typeof v === "string" ? v.trim() : v)
trim(v) == IF v.k = "string" THEN Str(strTrim(v.s)) ELSE v

\* const norm = (s) => trim(s).toLowerCase(): raises on a non-string
normThrows(v) == v.k # "string"
norm(s) == toLowerCase(strTrim(s))

\* const hex = (c) => c.startsWith("#") ? c : `#${c}`: raises on a non-string
hexThrows(v) == v.k # "string"
hex(c) == IF startsWith(c, <<"#">>) THEN c ELSE <<"#">> \o c

\* lower-case letter -> upper-case letter
UpperOf ==
    [c \in Range(LowerCase) |->
        UpperCase[CHOOSE i \in DOMAIN LowerCase : LowerCase[i] = c]]

\* String.prototype.toUpperCase of one character
toUpperCaseChar(c) == IF c \in DOMAIN UpperOf THEN UpperOf[c] ELSE c

\* \w of a regular expression: letters, digits and the underscore
isWordChar(c) ==
    c \in Range(UpperCase) \cup Range(LowerCase) \cup Range(Digits) \cup {"_"}

\* the replacer of title with its special cases left out
titleWordPlain(word) ==
    LET lower == toLowerCase(word)
    IN  <<toUpperCaseChar(Head(lower))>> \o Tail(lower)

\* (word) => { const lower = word.toLowerCase(); if (lower === "it") return
\* "IT"; ...; return lower.charAt(0).toUpperCase() + lower.slice(1); }
titleWord(word) ==
    LET lower == toLowerCase(word)
    IN  IF lower = <<"i","t">> THEN <<"I","T">>
        ELSE IF lower = <<"n","c">> THEN <<"N","C">>
        ELSE IF lower = <<"i","c">> THEN <<"I","C">>
        ELSE IF lower = <<"p","r">> THEN <<"P","R">>
        ELSE IF lower = <<"h","r">> THEN <<"H","R">>
        ELSE IF lower = <<"u","e">> THEN <<"U","E">>
        ELSE <<toUpperCaseChar(Head(lower))>> \o Tail(lower)

\* s.replace(/\b\w+\b/g, titleWord): the scan from character i on, word being
\* the run of word characters read so far; each maximal run is one match
RECURSIVE replaceWords(_, _, _)
replaceWords(s, i, word) ==
    LET done == IF word = <<>> THEN <<>> ELSE titleWord(word)
    IN  IF i > Len(s) THEN done
        ELSE IF isWordChar(s[i]) THEN replaceWords(s, i + 1, Append(word, s[i]))
        ELSE done \o <<s[i]>> \o replaceWords(s, i + 1, <<>>)

\* const title = (s) => trim(s).replace(/\b\w+\b/g, ...), of a string
title(s) == replaceWords(strTrim(s), 1, <<>>)

\* arr[i] of a JavaScript array kept as a sequence (0-based i)
at(arr, i) == IF i + 1 \in DOMAIN arr THEN arr[i + 1] ELSE undefined

\* obj[key] of a record kept as a function from field names to values
get(obj, key) == IF key \in DOMAIN obj THEN obj[key] ELSE undefined

\* obj[key] = v
put(obj, key, v) ==
    [x \in (DOMAIN obj) \cup {key} |-> IF x = key THEN v ELSE obj[x]]

-----------------------------------------------------------------------------
(* Field names and fixed strings of the source                             *)

ID == <<"i","d">>
PORTFOLIO == <<"P","o","r","t","f","o","l","i","o">>
TAGS == <<"T","a","g","s">>
CATEGORY == <<"C","a","t","e","g","o","r","y">>
SUBCATEGORY == <<"S","u","b","c","a","t","e","g","o","r","y">>
MEASURES == <<"M","e","a","s","u","r","e","s">>
MEASURE == <<"m","e","a","s","u","r","e">>

\* return "—": the bucket of the rows with no numeric prefix (one character,
\* U+2014, which no cell of the model contains)
FALLBACK_KEY == <<"EM DASH">>

-----------------------------------------------------------------------------
(* 1 | Helpers: sheetToRows                                                *)

\* r.some((c) => String(c).toLowerCase().includes("measure"))
isHeaderRow(r) ==
    \E i \in DOMAIN r : includes(toLowerCase(stringOf(r[i])), MEASURE)

\* r.some((c) => trim(c) !== "")
hasContent(r) == \E i \in DOMAIN r : trim(r[i]) # Str(<<>>)

\* headers.forEach((h, idx) => (obj[h] = trim(row[idx]))), from index idx on
RECURSIVE assignFields(_, _, _, _)
assignFields(obj, headers, row, idx) ==
    IF idx >= Len(headers) THEN obj
    ELSE assignFields(put(obj, stringOf(at(headers, idx)), trim(at(row, idx))),
                      headers, row, idx + 1)

\* function sheetToRows(sheet): raw is sheet_to_json(sheet, {header: 1, defval: ""}).
\* findIndex gives -1 when no row has a "measure" cell; raw[-1] is undefined and
\* raw[-1].map raises a TypeError.
sheetToRows(raw) ==
    IF ~\E n \in DOMAIN raw : isHeaderRow(raw[n])
    THEN [threw |-> TRUE, rows |-> <<>>]
    ELSE LET headerIdx == CHOOSE n \in DOMAIN raw :
                              isHeaderRow(raw[n]) /\ \A j \in 1..(n - 1) : ~isHeaderRow(raw[j])
             headers == [i \in DOMAIN raw[headerIdx] |-> trim(raw[headerIdx][i])]
             dataRows == SelectSeq(SubSeq(raw, headerIdx + 1, Len(raw)), hasContent)
         IN  [threw |-> FALSE,
              rows |-> [i \in DOMAIN dataRows |->
                          assignFields([x \in {ID} |-> Num(natToString(i - 1))],
                                       headers, dataRows[i], 0)]]

-----------------------------------------------------------------------------
(* 2.1 | Load workbook and derive look-ups                                 *)

\* UTF-16 order of the characters of the model: Array.prototype.sort() with no
\* comparator orders strings by code unit.
CodeOrder ==
    <<" ", "#", ",", "-", ".", "/">> \o Digits \o UpperCase \o <<"_">> \o LowerCase

charCode(c) == CHOOSE i \in DOMAIN CodeOrder : CodeOrder[i] = c

RECURSIVE strLess(_, _)
strLess(a, b) ==
    IF b = <<>> THEN FALSE
    ELSE IF a = <<>> THEN TRUE
    ELSE IF Head(a) = Head(b) THEN strLess(Tail(a), Tail(b))
    ELSE charCode(Head(a)) < charCode(Head(b))

RECURSIVE insertSorted(_, _)
insertSorted(sorted, x) ==
    IF sorted = <<>> THEN <<x>>
    ELSE IF strLess(x, Head(sorted)) THEN <<x>> \o sorted
    ELSE <<Head(sorted)>> \o insertSorted(Tail(sorted), x)

\* [...set].sort()
RECURSIVE sort(_)
sort(arr) ==
    IF arr = <<>> THEN <<>> ELSE insertSorted(sort(Tail(arr)), Head(arr))

\* new Map()
EmptyMap == [x \in {} |-> <<>>]

\* set.add(x) on a Set kept in insertion order
setAdd(set, x) == IF x \in Range(set) THEN set ELSE Append(set, x)

\* One name/colour pair of a Config row: if (name) { key = norm(name);
\* set.add(name); if (colour) map.set(key, hex(colour)); }
cfgPairThrows(name, colour) ==
    truthy(name) /\ (normThrows(name) \/ (truthy(colour) /\ hexThrows(colour)))

cfgSet(set, name) == IF truthy(name) THEN setAdd(set, name.s) ELSE set

cfgMap(map, name, colour) ==
    IF truthy(name) /\ truthy(colour)
    THEN put(map, norm(name.s), hex(colour.s))
    ELSE map

\* cfgRows.forEach((r) => { ... }) from row i on; acc holds the two Sets and
\* the two Maps, and threw once a row raised
RECURSIVE cfgForEach(_, _, _)
cfgForEach(cfgRows, i, acc) ==
    IF i > Len(cfgRows) \/ acc.threw THEN acc
    ELSE LET r == cfgRows[i]
             tagName == trim(at(r, 0))
             tagColourHex == trim(at(r, 1))
             portfolioName == trim(at(r, 2))
             portfolioColourHex == trim(at(r, 3))
         IN  cfgForEach(cfgRows, i + 1,
               IF cfgPairThrows(portfolioName, portfolioColourHex)
                  \/ cfgPairThrows(tagName, tagColourHex)
               THEN [acc EXCEPT !.threw = TRUE]
               ELSE [threw |-> FALSE,
                     portSet |-> cfgSet(acc.portSet, portfolioName),
                     tagSet |-> cfgSet(acc.tagSet, tagName),
                     portColourMap |-> cfgMap(acc.portColourMap, portfolioName,
                                              portfolioColourHex),
                     tagColourMap |-> cfgMap(acc.tagColourMap, tagName,
                                             tagColourHex)])

\* XLSX.utils.sheet_to_json(wb.Sheets[name], {header: 1, defval: ""}); the
\* library returns [] for a sheet the workbook does not have
sheetToJson(book, name) ==
    IF name \in DOMAIN book.Sheets THEN book.Sheets[name] ELSE <<>>

\* const [, ...cfgRows] = cfg, then the forEach over cfgRows
resolveConfig(book) ==
    LET cfg == sheetToJson(book, "Config")
        cfgRows == IF cfg = <<>> THEN <<>> ELSE Tail(cfg)
    IN  cfgForEach(cfgRows, 1,
                   [threw |-> FALSE, portSet |-> <<>>, tagSet |-> <<>>,
                    portColourMap |-> EmptyMap, tagColourMap |-> EmptyMap])

\* wb.SheetNames.filter((n) => !ignore.has(n))
dataSheets(book) ==
    SelectSeq(book.SheetNames, LAMBDA n : n \notin {"Introduction", "Config"})

\* Object.fromEntries(sheets.map((name) => [name, sheetToRows(wb.Sheets[name])]))
parseSheets(book) ==
    LET sheets == dataSheets(book)
        parsed == [n \in Range(sheets) |-> sheetToRows(sheetToJson(book, n))]
    IN  [threw |-> \E n \in Range(sheets) : parsed[n].threw,
         map |-> [n \in Range(sheets) |-> parsed[n].rows]]

NoExport == [saved |-> "none", sections |-> <<>>, selected |-> EmptyMap]

InitWith(books) ==
    /\ wb \in books
    /\ load = "pending"
    /\ alerts = 0
    /\ tabs = <<>>
    /\ rowsByTab = EmptyMap
    /\ tabIdx = 0
    /\ loading = TRUE
    /\ portfolios = <<>>
    /\ portfolioOptions = <<>>
    /\ portfolioColours = EmptyMap
    /\ tags = <<>>
    /\ tagOptions = <<>>
    /\ tagColours = EmptyMap
    /\ query = <<>>
    /\ exported = NoExport

\* .catch((err) => { console.error(err); alert("Failed to load ..."); })
catch == alerts' = alerts + 1

\* loadWorkbook(XLSX_URL) rejects: the fetch or XLSX.read failed
LoadReject ==
    /\ load = "pending"
    /\ load' = "rejected"
    /\ catch
    /\ UNCHANGED <<wb, tabs, rowsByTab, tabIdx, loading, portfolios,
                   portfolioOptions, portfolioColours, tags, tagOptions,
                   tagColours, query, exported>>

\* loadWorkbook(XLSX_URL).then((wb) => { ... }): a TypeError in the body goes to
\* the catch; the state setters called before it have taken effect
LoadResolve ==
    /\ load = "pending"
    /\ load' = "resolved"
    /\ LET cfg == resolveConfig(wb)
           parsed == parseSheets(wb)
       IN  IF cfg.threw
           THEN /\ catch
                /\ UNCHANGED <<tabs, rowsByTab, loading, portfolioOptions,
                               portfolioColours, tagOptions, tagColours>>
           ELSE /\ portfolioOptions' = sort(cfg.portSet)
                /\ tagOptions' = sort(cfg.tagSet)
                /\ portfolioColours' = cfg.portColourMap
                /\ tagColours' = cfg.tagColourMap
                /\ IF parsed.threw
                   THEN /\ catch
                        /\ UNCHANGED <<tabs, rowsByTab, loading>>
                   ELSE /\ tabs' = dataSheets(wb)
                        /\ rowsByTab' = parsed.map
                        /\ loading' = FALSE
                        /\ UNCHANGED alerts
    /\ UNCHANGED <<wb, tabIdx, portfolios, tags, query, exported>>

\* const rows = tabs.length ? rowsByTab[tabs[tabIdx]] : []
rows == IF Len(tabs) # 0 THEN rowsByTab[tabs[tabIdx + 1]] ELSE <<>>

-----------------------------------------------------------------------------
(* 2.2 | Filtering                                                         *)

\* String(r.Portfolio).split(",").map((p) => norm(p))
rowPortfolios(r) ==
    LET parts == split(stringOf(get(r, PORTFOLIO)), ",")
    IN  [i \in DOMAIN parts |-> norm(parts[i])]

\* rowTags with the trim of each part left out
rowTagsUntrimmed(r) ==
    LET parts == split(stringOf(get(r, TAGS)), ",")
    IN  [i \in DOMAIN parts |-> toLowerCase(parts[i])]

\* String(r.Tags).split(",").map((t) => trim(t.toLowerCase()))
rowTags(r) ==
    LET parts == split(stringOf(get(r, TAGS)), ",")
    IN  [i \in DOMAIN parts |-> strTrim(toLowerCase(parts[i]))]

\* portfolios.length && !portfolios.map(norm).some((p) => rowPortfolios.includes(p))
portfolioRejects(r, ps) ==
    /\ Len(ps) # 0
    /\ ~\E i \in DOMAIN ps : norm(ps[i]) \in Range(rowPortfolios(r))

\* tags.length && !tags.map((t) => t.toLowerCase()).some((t) => rowTags.includes(t))
tagRejects(r, ts) ==
    /\ Len(ts) # 0
    /\ ~\E i \in DOMAIN ts : toLowerCase(ts[i]) \in Range(rowTags(r))

\* queryRejects looking at the Measures field alone instead of every value
queryRejectsMeasuresOnly(r, q) ==
    /\ q # <<>>
    /\ ~includes(toLowerCase(stringOf(get(r, MEASURES))), toLowerCase(q))

\* query && !Object.values(r).some((v) =>
\*     String(v).toLowerCase().includes(query.toLowerCase()))
queryRejects(r, q) ==
    /\ q # <<>>
    /\ ~\E f \in DOMAIN r : includes(toLowerCase(stringOf(r[f])), toLowerCase(q))

\* the callback of rows.filter in the filtered memo
keepRow(r, ps, ts, q) ==
    IF portfolioRejects(r, ps) THEN FALSE
    ELSE IF tagRejects(r, ts) THEN FALSE
    ELSE IF queryRejects(r, q) THEN FALSE
    ELSE TRUE

RECURSIVE reverse(_)
reverse(arr) == IF arr = <<>> THEN <<>> ELSE Append(reverse(Tail(arr)), Head(arr))

\* filterRows collecting the kept records back to front
filterRowsReversed(rowsArr, ps, ts, q) ==
    reverse(SelectSeq(rowsArr, LAMBDA r : keepRow(r, ps, ts, q)))

\* rows.filter((r) => { ... }) of the filtered memo, for any record array
filterRows(rowsArr, ps, ts, q) ==
    SelectSeq(rowsArr, LAMBDA r : keepRow(r, ps, ts, q))

\* const filtered = useMemo(..., [rows, portfolios, tags, query])
filtered == filterRows(rows, portfolios, tags, query)

\* The second definition of the filter (second EnhancedDashboard of the file):
\* const portfolio = trim(r.Portfolio).toLowerCase() raises when the field is
\* not a string; the whole field is compared with the selected names
secondThrows(r) == get(r, PORTFOLIO).k # "string"

secondPortfolioRejects(r, ps) ==
    /\ Len(ps) # 0
    /\ toLowerCase(strTrim(get(r, PORTFOLIO).s))
           \notin {toLowerCase(ps[i]) : i \in DOMAIN ps}

secondKeepRow(r, ps, ts) ==
    IF secondPortfolioRejects(r, ps) THEN FALSE
    ELSE IF tagRejects(r, ts) THEN FALSE
    ELSE TRUE

filteredSecond ==
    IF \E i \in DOMAIN rows : secondThrows(rows[i])
    THEN [threw |-> TRUE, rows |-> <<>>]
    ELSE [threw |-> FALSE,
          rows |-> SelectSeq(rows, LAMBDA r : secondKeepRow(r, portfolios, tags))]

-----------------------------------------------------------------------------
(* 2.3 | Grouping                                                          *)

\* length of the longest run of digits at the start of s: a greedy \d+
RECURSIVE digitRun(_)
digitRun(s) ==
    IF s # <<>> /\ Head(s) \in Range(Digits) THEN 1 + digitRun(Tail(s)) ELSE 0

\* txt.match(/^(\d+)\.(\d+)/): matched, and `${m[1]}.${m[2]}`
matchPrefix(txt) ==
    LET n1 == digitRun(txt)
        rest == SubSeq(txt, n1 + 2, Len(txt))
        n2 == digitRun(rest)
    IN  [matched |-> n1 > 0 /\ n1 < Len(txt) /\ txt[n1 + 1] = "." /\ n2 > 0,
         key |-> SubSeq(txt, 1, n1) \o <<".">> \o SubSeq(rest, 1, n2)]

\* for (let fld of tryFields) { if (!fld) continue; const txt = trim(fld);
\* const m = txt.match(...); if (m) return key }  return "—".
\* txt.match is not a function when fld is a non-zero number: a TypeError.
RECURSIVE tryFieldsFrom(_, _)
tryFieldsFrom(tryFields, i) ==
    IF i > Len(tryFields) THEN [threw |-> FALSE, key |-> FALLBACK_KEY]
    ELSE LET fld == tryFields[i]
         IN  IF ~truthy(fld) THEN tryFieldsFrom(tryFields, i + 1)
             ELSE IF trim(fld).k # "string" THEN [threw |-> TRUE, key |-> <<>>]
             ELSE IF matchPrefix(trim(fld).s).matched
                  THEN [threw |-> FALSE, key |-> matchPrefix(trim(fld).s).key]
                  ELSE tryFieldsFrom(tryFields, i + 1)

\* the iteratee of groupBy: const tryFields = [r.Category, r.Subcategory, r.Measures]
groupKey(r) ==
    tryFieldsFrom(<<get(r, CATEGORY), get(r, SUBCATEGORY), get(r, MEASURES)>>, 1)

\* groupBy's accumulation: push r onto the bucket of key, a new key going last
addToGroup(groups, key, r) ==
    IF \E g \in DOMAIN groups : groups[g].key = key
    THEN [g \in DOMAIN groups |->
            IF groups[g].key = key
            THEN [key |-> key, items |-> Append(groups[g].items, r)]
            ELSE groups[g]]
    ELSE Append(groups, [key |-> key, items |-> <<r>>])

RECURSIVE groupFrom(_, _, _)
groupFrom(rowsArr, i, groups) ==
    IF i > Len(rowsArr) THEN groups
    ELSE groupFrom(rowsArr, i + 1, addToGroup(groups, groupKey(rowsArr[i]).key, rowsArr[i]))

\* groupBy(rowsArr, iteratee), as Object.entries lists it: the keys are not
\* array indices, so they come in insertion order
groupBy(rowsArr) ==
    IF \E i \in DOMAIN rowsArr : groupKey(rowsArr[i]).threw
    THEN [threw |-> TRUE, groups |-> <<>>]
    ELSE [threw |-> FALSE, groups |-> groupFrom(rowsArr, 1, <<>>)]

\* const grouped = useMemo(() => groupBy(filtered, ...), [filtered])
grouped == groupBy(filtered)

-----------------------------------------------------------------------------
(* 2.5 | DataGrid column definitions                                       *)

MATERIALS == <<"M","a","t","e","r","i","a","l","s">>
UPDATE == <<"u","p","d","a","t","e">>

NOT_STARTED == <<"n","o","t"," ","s","t","a","r","t","e","d">>
STARTED == <<"s","t","a","r","t","e","d">>
MAINTAINED == <<"m","a","i","n","t","a","i","n","e","d">>
DELAYED == <<"d","e","l","a","y","e","d">>
ON_TRACK == <<"o","n"," ","t","r","a","c","k">>
NEARLY_COMPLETED ==
    <<"n","e","a","r","l","y"," ","c","o","m","p","l","e","t","e","d">>
ABANDONED == <<"a","b","a","n","d","o","n","e","d">>
COMPLETED == <<"c","o","m","p","l","e","t","e","d">>

\* const STATUS_BG = { 'not started': '#e6e6e6', ... }
STATUS_BG ==
    [s \in {NOT_STARTED, STARTED, MAINTAINED, DELAYED, ON_TRACK,
            NEARLY_COMPLETED, ABANDONED, COMPLETED} |->
        CASE s = NOT_STARTED -> "#e6e6e6"
          [] s = STARTED -> "#ffd360"
          [] s = MAINTAINED -> "#bfe1f6"
          [] s = DELAYED -> "#ff9689"
          [] s = ON_TRACK -> "#d4edbc"
          [] s = NEARLY_COMPLETED -> "#98d55e"
          [] s = ABANDONED -> "#3d3d3d"
          [] s = COMPLETED -> "#11734b"]

\* the filter of columns with /Update/i replaced by a case-sensitive test
isExcludedFieldExact(f) ==
    f \in {ID, CATEGORY, MATERIALS} \/ includes(f, <<"U","p","d","a","t","e">>)

\* !(!["id", "Category", "Materials"].includes(f) && !/Update/i.test(f))
isExcludedField(f) ==
    f \in {ID, CATEGORY, MATERIALS} \/ includes(toLowerCase(f), UPDATE)

\* const columns = useMemo(...): the fields that get a column descriptor.  A
\* record keeps no key order here, so columns is the set of the fields of
\* Object.keys(rows[0]) that pass the filter, each mapped to one descriptor.
columns ==
    IF Len(rows) = 0 THEN {}
    ELSE {field \in DOMAIN rows[1] : ~isExcludedField(field)}

\* /^\d{2}\/\d{2}$/.test(field)
isStatusField(field) ==
    /\ Len(field) = 5
    /\ \A i \in {1, 2, 4, 5} : field[i] \in Range(Digits)
    /\ field[3] = "/"

\* key.replace(/\s+/g, '-'): the scan from character i on; inRun holds while
\* the characters just read were white space
RECURSIVE replaceSpaces(_, _, _)
replaceSpaces(key, i, inRun) ==
    IF i > Len(key) THEN <<>>
    ELSE IF key[i] \in WhiteSpace
         THEN (IF inRun THEN <<>> ELSE <<"-">>) \o replaceSpaces(key, i + 1, TRUE)
         ELSE <<key[i]>> \o replaceSpaces(key, i + 1, FALSE)

\* col.cellClassName = (params) => { const key = String(params.value ||
\* '').toLowerCase(); return `status-${key.replace(/\s+/g, '-')}`; }
cellClassName(value) ==
    LET key == toLowerCase(IF truthy(value) THEN stringOf(value) ELSE <<>>)
    IN  <<"s","t","a","t","u","s","-">> \o replaceSpaces(key, 1, FALSE)

\* sx of the DataGrid: '& .status-not-started': { bgcolor: STATUS_BG['not
\* started'] }, ... : the rules, as (class name, background) pairs
statusRules ==
    << <<<<"s","t","a","t","u","s","-","n","o","t","-","s","t","a","r","t","e","d">>,
         STATUS_BG[NOT_STARTED]>>,
       <<<<"s","t","a","t","u","s","-","s","t","a","r","t","e","d">>,
         STATUS_BG[STARTED]>>,
       <<<<"s","t","a","t","u","s","-","m","a","i","n","t","a","i","n","e","d">>,
         STATUS_BG[MAINTAINED]>>,
       <<<<"s","t","a","t","u","s","-","d","e","l","a","y","e","d">>,
         STATUS_BG[DELAYED]>>,
       <<<<"s","t","a","t","u","s","-","n","e","a","r","l","y","-","c","o","m","p","l","e","t","e","d">>,
         STATUS_BG[NEARLY_COMPLETED]>>,
       <<<<"s","t","a","t","u","s","-","a","b","a","n","d","o","n","e","d">>,
         STATUS_BG[ABANDONED]>>,
       <<<<"s","t","a","t","u","s","-","c","o","m","p","l","e","t","e","d">>,
         STATUS_BG[COMPLETED]>>,
       <<<<"s","t","a","t","u","s","-","o","n","-","t","r","a","c","k">>,
         STATUS_BG[ON_TRACK]>> >>

\* class name -> background of the rule that selects it
statusClasses ==
    [c \in {statusRules[i][1] : i \in DOMAIN statusRules} |->
        statusRules[CHOOSE i \in DOMAIN statusRules : statusRules[i][1] = c][2]]

\* The status background a cell of a status column gets: that of the sx rule
\* its class selects, "none" when no rule does
statusBackground(value) ==
    IF cellClassName(value) \in DOMAIN statusClasses
    THEN statusClasses[cellClassName(value)]
    ELSE "none"

-----------------------------------------------------------------------------
(* 3 | Render: what is on screen, and the event handlers                   *)

\* The filters, the tabs and the grids are rendered once loading is false; a
\* TypeError raised while rendering (the grouped memo) unmounts the tree.
rendered == ~loading /\ ~grouped.threw

\* String(params.value).split(',').map((p) => norm(p)).filter(Boolean): the
\* labels of the chips of one cell
chipLabels(v) ==
    LET parts == split(stringOf(v), ",")
    IN  {norm(parts[i]) : i \in DOMAIN parts} \ {<<>>}

\* The chips of column field in the grids: the column exists when rows[0] has
\* the field, and the grids show the filtered rows
chipsShown(field) ==
    IF rows # <<>> /\ field \in DOMAIN rows[1]
    THEN UNION {chipLabels(get(filtered[i], field)) : i \in DOMAIN filtered}
    ELSE {}

\* {tags.map((t) => (<Chip key={`tag-${t}`} label={title(t)} ... />))}: the
\* labels of the chips of the selected tags
selectedTagLabels == [i \in DOMAIN tags |-> title(tags[i])]

\* const hasSame = (arr, raw) => arr.some((x) => norm(x) === norm(raw))
hasSame(arr, raw) == \E i \in DOMAIN arr : norm(arr[i]) = norm(raw)

\* the updater of togglePortfolio and of toggleTag
toggle(prev, rawLabel) ==
    IF hasSame(prev, rawLabel)
    THEN SelectSeq(prev, LAMBDA p : norm(p) # norm(rawLabel))
    ELSE Append(prev, rawLabel)

\* the filter of the Autocomplete onChange keeping every entry
keepEveryHit(v, i) == SubSeq(v, i, Len(v))

\* v.filter((val, i, arr) => arr.findIndex((x) => norm(x) === norm(val)) === i)
RECURSIVE keepFirstHit(_, _)
keepFirstHit(v, i) ==
    IF i > Len(v) THEN <<>>
    ELSE (IF \A j \in 1..(i - 1) : norm(v[j]) # norm(v[i]) THEN <<v[i]>> ELSE <<>>)
         \o keepFirstHit(v, i + 1)

removeAt(arr, i) == SubSeq(arr, 1, i - 1) \o SubSeq(arr, i + 1, Len(arr))

\* The arrays a multiple Autocomplete hands to onChange: the value with an
\* option added, with one entry removed, or cleared
autocompleteValues(value, options) ==
    {Append(value, options[i]) : i \in {n \in DOMAIN options : options[n] \notin Range(value)}}
        \cup {removeAt(value, i) : i \in DOMAIN value}
        \cup {<<>>}

\* <Tabs onChange={(_, v) => setTabIdx(v)}>
setTabIdx(v) ==
    /\ rendered
    /\ v < Len(tabs)
    /\ tabIdx' = v
    /\ UNCHANGED <<wb, load, alerts, tabs, rowsByTab, loading, portfolios,
                   portfolioOptions, portfolioColours, tags, tagOptions,
                   tagColours, query, exported>>

\* Portfolio Autocomplete onChange
changePortfolios(v) ==
    /\ rendered
    /\ v \in autocompleteValues(portfolios, portfolioOptions)
    /\ portfolios' = keepFirstHit(v, 1)
    /\ UNCHANGED <<wb, load, alerts, tabs, rowsByTab, tabIdx, loading,
                   portfolioOptions, portfolioColours, tags, tagOptions,
                   tagColours, query, exported>>

\* Tag Autocomplete onChange
changeTags(v) ==
    /\ rendered
    /\ v \in autocompleteValues(tags, tagOptions)
    /\ tags' = keepFirstHit(v, 1)
    /\ UNCHANGED <<wb, load, alerts, tabs, rowsByTab, tabIdx, loading, portfolios,
                   portfolioOptions, portfolioColours, tagOptions,
                   tagColours, query, exported>>

\* onClick={() => togglePortfolio(p)} of a chip in a Portfolio cell
togglePortfolio(rawLabel) ==
    /\ rendered
    /\ rawLabel \in chipsShown(PORTFOLIO)
    /\ portfolios' = toggle(portfolios, rawLabel)
    /\ UNCHANGED <<wb, load, alerts, tabs, rowsByTab, tabIdx, loading,
                   portfolioOptions, portfolioColours, tags, tagOptions,
                   tagColours, query, exported>>

\* onClick={() => toggleTag(t)} of a chip in a Tags cell
toggleTag(rawLabel) ==
    /\ rendered
    /\ rawLabel \in chipsShown(TAGS)
    /\ tags' = toggle(tags, rawLabel)
    /\ UNCHANGED <<wb, load, alerts, tabs, rowsByTab, tabIdx, loading, portfolios,
                   portfolioOptions, portfolioColours, tagOptions,
                   tagColours, query, exported>>

\* onDelete of a selected-portfolio chip
deletePortfolio(p) ==
    /\ rendered
    /\ p \in Range(portfolios)
    /\ portfolios' = SelectSeq(portfolios, LAMBDA name : name # p)
    /\ UNCHANGED <<wb, load, alerts, tabs, rowsByTab, tabIdx, loading,
                   portfolioOptions, portfolioColours, tags, tagOptions,
                   tagColours, query, exported>>

\* onDelete of a selected-tag chip
deleteTag(t) ==
    /\ rendered
    /\ t \in Range(tags)
    /\ tags' = SelectSeq(tags, LAMBDA name : name # t)
    /\ UNCHANGED <<wb, load, alerts, tabs, rowsByTab, tabIdx, loading, portfolios,
                   portfolioOptions, portfolioColours, tagOptions,
                   tagColours, query, exported>>

\* <TextField value={query} onChange={(e) => setQuery(e.target.value)}>
setQuery(q) ==
    /\ rendered
    /\ query' = q
    /\ UNCHANGED <<wb, load, alerts, tabs, rowsByTab, tabIdx, loading, portfolios,
                   portfolioOptions, portfolioColours, tags, tagOptions,
                   tagColours, exported>>

-----------------------------------------------------------------------------
(* Export                                                                  *)

\* const filteredRows = (rowsArr) => rowsArr.filter((r) => { /* same three
\* checks you have in useMemo */ }): the callback has no statement and
\* returns undefined for every record
filteredRows(rowsArr) == SelectSeq(rowsArr, LAMBDA r : FALSE)

\* function handleExport(applyFilters): selected is tableRows of each tab,
\* sections the tabs that got a heading and a table, saved the file name
handleExport(applyFilters) ==
    /\ LET tableRows == [t \in Range(tabs) |->
                            IF applyFilters THEN filteredRows(rowsByTab[t])
                                            ELSE rowsByTab[t]]
       IN  exported' = [saved |-> IF applyFilters THEN "strategy_filtered.pdf"
                                                  ELSE "strategy_all.pdf",
                        sections |-> SelectSeq(tabs, LAMBDA t : Len(tableRows[t]) # 0),
                        selected |-> tableRows]
    /\ UNCHANGED <<wb, load, alerts, tabs, rowsByTab, tabIdx, loading, portfolios,
                   portfolioOptions, portfolioColours, tags, tagOptions,
                   tagColours, query>>

-----------------------------------------------------------------------------
(* Inputs: the workbooks a session can be given, and what the user types   *)

\* Bounds of the model
MaxSel == 2          \* selected portfolios, and selected tags, at a time
MaxCellLen == 3      \* characters of a generated Tags cell
MaxRows == 3         \* data rows of a generated sheet
MaxQueryLen == 3     \* characters of a generated query

\* all strings over alphabet of at most n characters
StringsUpTo(alphabet, n) == UNION {[1..m -> alphabet] : m \in 0..n}

\* all sequences over pool of 1..n elements
SeqsUpTo(pool, n) == UNION {[1..m -> pool] : m \in 1..n}

\* Cell texts of the sample workbooks
wTag == <<"T","a","g">>
wTagColour == <<"C","o","l","o","u","r">>
wPortfolioColour == <<"C","o","l","o","u","r","2">>
wBlue == <<"B","l","u","e">>
wE3F2FD == <<"E","3","F","2","F","D">>
w003399 == <<"0","0","3","3","9","9">>
wFFE600 == <<"#","F","F","E","6","0","0">>
wEducation == <<"E","d","u","c","a","t","i","o","n">>
wLabour == <<"L","a","b","o","u","r">>
wNationalStrategy == <<"S","t","r","a","t","e","g","y">>
wCurriculum == <<"3",".","2"," ","R","e","f","o","r","m">>
wTrain == <<"T","r","a","i","n">>
wNurses == <<"4",".","1"," ","H","i","r","e">>
wLabourEducation == <<"L","a","b","o","u","r",","," ","E","d","u","c","a","t","i","o","n">>
wHealthLabour == <<"H","e","a","l","t","h",","," ","L","a","b","o","u","r">>
wBlueGreen == <<"b","l","u","e",","," ","G","r","e","e","n">>
wRoads == <<"5",".","1"," ","R","o","a","d","s">>
wBuild == <<"B","u","i","l","d">>
wPlan == <<"P","l","a","n">>
w32 == <<"3",".","2">>
wNotes == <<"N","o","t","e","s">>
wNone == <<"n","o","n","e">>
wWelcome == <<"W","e","l","c","o","m","e">>
wQueryLabour == <<"L","A","B","O","U","R">>

blank == Str(<<>>)

\* The Config sheet: a metadata row, then (tag, tag colour, portfolio, colour)
configSheet ==
    << <<Str(wTag), Str(wTagColour), Str(PORTFOLIO), Str(wPortfolioColour)>>,
       <<Str(wBlue), Str(wE3F2FD), Str(wEducation), Str(w003399)>>,
       <<blank, blank, Str(wLabour), Str(wFFE600)>> >>

introSheet == << <<Str(wWelcome)>> >>

dataHeader == <<Str(CATEGORY), Str(MEASURES), Str(PORTFOLIO), Str(TAGS)>>

\* A pillar sheet: a title row, the header, two records and a blank row between
pillarSheet ==
    << <<Str(wNationalStrategy), blank, blank, blank>>,
       dataHeader,
       <<Str(wCurriculum), Str(wTrain), Str(wLabourEducation), Str(wBlue)>>,
       <<blank, blank, blank, blank>>,
       <<blank, Str(wNurses), Str(wHealthLabour), Str(wBlueGreen)>> >>

\* A sheet with no Portfolio and no Tags column
plainSheet ==
    << <<Str(CATEGORY), Str(MEASURES)>>,
       <<Str(wRoads), Str(wBuild)>> >>

\* A sheet whose Category cell is the number 3.2
numericSheet ==
    << dataHeader,
       <<Num(w32), Str(wPlan), Str(wEducation), Str(wBlue)>> >>

\* A sheet with no header row, and a sheet with no rows
notesSheet == << <<Str(wNotes), Str(wNone)>> >>
emptySheet == << >>

book(names, grids) ==
    [SheetNames |-> <<"Introduction", "Config">> \o names,
     Sheets |-> [n \in {"Introduction", "Config"} \cup Range(names) |->
                    IF n = "Introduction" THEN introSheet
                    ELSE IF n = "Config" THEN configSheet
                    ELSE grids[CHOOSE i \in DOMAIN names : names[i] = n]]]

Workbooks ==
    { book(<<"Pillar 1", "Pillar 2">>, <<pillarSheet, plainSheet>>),
      book(<<"Pillar 1", "Pillar 2">>, <<plainSheet, numericSheet>>),
      book(<<"Notes", "Pillar 1">>, <<notesSheet, pillarSheet>>),
      book(<<"Notes", "Pillar 1">>, <<emptySheet, pillarSheet>>) }

Queries == {<<>>, wQueryLabour}

-----------------------------------------------------------------------------
(* The dashboard session                                                   *)

Init == InitWith(Workbooks)

Next ==
    \/ LoadResolve
    \/ LoadReject
    \/ \E v \in DOMAIN tabs : setTabIdx(v - 1)
    \/ \E v \in autocompleteValues(portfolios, portfolioOptions) :
           Len(v) <= MaxSel /\ changePortfolios(v)
    \/ \E v \in autocompleteValues(tags, tagOptions) :
           Len(v) <= MaxSel /\ changeTags(v)
    \/ \E p \in chipsShown(PORTFOLIO) :
           Len(toggle(portfolios, p)) <= MaxSel /\ togglePortfolio(p)
    \/ \E p \in chipsShown(TAGS) :
           Len(toggle(tags, p)) <= MaxSel /\ toggleTag(p)
    \/ \E p \in Range(portfolios) : deletePortfolio(p)
    \/ \E p \in Range(tags) : deleteTag(p)
    \/ \E q \in Queries : setQuery(q)
    \/ \E b \in BOOLEAN : handleExport(b)

Spec == Init /\ [][Next]_vars

-----------------------------------------------------------------------------
(* Claims                                                                  *)

\* every record of every tab, as (tab, index) pairs
AllRecords ==
    UNION {{<<t, i>> : i \in 1..Len(rowsByTab[t])} : t \in DOMAIN rowsByTab}
recordAt(ti) == rowsByTab[ti[1]][ti[2]]

\* The parts of a field's string form, split on commas and normalized (trimmed
\* and lower-cased)
normalizedParts(r, field) ==
    LET parts == split(stringOf(get(r, field)), ",")
    IN  {toLowerCase(strTrim(parts[i])) : i \in DOMAIN parts}

\* Some selected name, normalized, equals some normalized part of the field;
\* vacuously true when nothing is selected
anySelectedMatches(r, field, selection) ==
    \/ selection = <<>>
    \/ \E i \in DOMAIN selection :
           toLowerCase(strTrim(selection[i])) \in normalizedParts(r, field)

\* The lower-cased query is a substring of the lower-cased string form of some
\* field value; vacuously true for the empty query
queryMatches(r, q) ==
    \/ q = <<>>
    \/ \E f \in DOMAIN r : includes(toLowerCase(stringOf(r[f])), toLowerCase(q))

\* The records of rowsArr passing the three predicates, in order
filterOutput(rowsArr) ==
    SelectSeq(rowsArr, LAMBDA r : /\ anySelectedMatches(r, PORTFOLIO, portfolios)
                                  /\ anySelectedMatches(r, TAGS, tags)
                                  /\ queryMatches(r, query))

\* C1: whenever export runs, the record set selected for each tab is the
\* filter output on that tab's records when "apply active filters" is set
\* and the tab's raw records when it is clear, and a tab with a record
\* passing the filters gets its section.
ExportSelectsFilterOutput ==
    [][\A b \in BOOLEAN :
          handleExport(b) =>
              \A t \in Range(tabs) :
                  /\ exported'.selected[t] =
                         (IF b THEN filterOutput(rowsByTab[t]) ELSE rowsByTab[t])
                  /\ (b /\ filterOutput(rowsByTab[t]) # <<>>)
                         => t \in Range(exported'.sections)]_vars

\* C2: a data sheet with no "measure" row normalizes to no records without
\* raising, and the load still completes: once the load effect has run on a
\* workbook whose Config resolves and whose other sheets have a header, the
\* loading state is cleared and the headerless sheet is a tab with no records.
hasHeader(raw) == \E n \in DOMAIN raw : isHeaderRow(raw[n])
HeaderlessSheetLoadsEmpty ==
    (load = "resolved" /\ ~resolveConfig(wb).threw) =>
        \A n \in Range(dataSheets(wb)) :
            ~hasHeader(sheetToJson(wb, n)) =>
                /\ ~sheetToRows(sheetToJson(wb, n)).threw
                /\ ~loading
                /\ n \in Range(tabs)
                /\ rowsByTab[n] = <<>>

\* The group key the string forms of Category, Subcategory and Measures give:
\* the first whose trimmed text starts with digits, a dot and digits
startsWithTwoRuns(txt) ==
    \E a \in 1..Len(txt), b \in 1..Len(txt) :
        /\ a + 1 + b <= Len(txt)
        /\ \A i \in 1..a : txt[i] \in Range(Digits)
        /\ txt[a + 1] = "."
        /\ \A i \in (a + 2)..(a + 1 + b) : txt[i] \in Range(Digits)
twoRunsKey(txt) ==
    LET a == CHOOSE n \in 1..Len(txt) :
                 /\ \A i \in 1..n : txt[i] \in Range(Digits)
                 /\ txt[n + 1] = "."
        b == CHOOSE n \in 1..Len(txt) :
                 /\ a + 1 + n <= Len(txt)
                 /\ \A i \in (a + 2)..(a + 1 + n) : txt[i] \in Range(Digits)
                 /\ (a + 2 + n <= Len(txt) => txt[a + 2 + n] \notin Range(Digits))
    IN  SubSeq(txt, 1, a + 1 + b)
textOf(r, field) == strTrim(stringOf(get(r, field)))
isBlank(r, field) == get(r, field).k = "undefined" \/ textOf(r, field) = <<>>
expectedKey(r) ==
    LET candidates == <<CATEGORY, SUBCATEGORY, MEASURES>>
        hits == {i \in DOMAIN candidates :
                    ~isBlank(r, candidates[i]) /\ startsWithTwoRuns(textOf(r, candidates[i]))}
    IN  IF hits = {} THEN FALLBACK_KEY
        ELSE twoRunsKey(textOf(r, candidates[CHOOSE i \in hits : \A j \in hits : i <= j]))

\* C3: filtering and grouping never raise on a field value: for every record,
\* whatever its Portfolio, Tags, Category, Subcategory and Measures hold
\* (nothing, a blank, a number), the filter predicate of each definition of
\* the filter and the group key computation complete.
FieldValuesNeverRaise ==
    \A ti \in AllRecords :
        /\ ~secondThrows(recordAt(ti))
        /\ ~groupKey(recordAt(ti)).threw

\* C4: a record whose Portfolio is text passes the portfolio predicate, in
\* each definition of the filter, exactly when no portfolio is selected or
\* some selected portfolio, normalized, equals some comma-separated part of
\* its Portfolio field, normalized.
hasTextPortfolio(r) == get(r, PORTFOLIO).k = "string"
PortfolioPredicateMatchesAnyPart ==
    \A ti \in AllRecords :
        hasTextPortfolio(recordAt(ti)) =>
            /\ ~portfolioRejects(recordAt(ti), portfolios)
                   <=> anySelectedMatches(recordAt(ti), PORTFOLIO, portfolios)
            /\ ~secondPortfolioRejects(recordAt(ti), portfolios)
                   <=> anySelectedMatches(recordAt(ti), PORTFOLIO, portfolios)

\* The portfolio predicate of the filtered memo (the first definition) alone
\* does match any part.
FirstPortfolioPredicateMatchesAnyPart ==
    \A ti \in AllRecords :
        ~portfolioRejects(recordAt(ti), portfolios)
            <=> anySelectedMatches(recordAt(ti), PORTFOLIO, portfolios)

-----------------------------------------------------------------------------
(* Generated workbooks: one Config sheet and one data sheet                *)

miniBook(config, data) ==
    [SheetNames |-> <<"Config", "Data">>,
     Sheets |-> [n \in {"Config", "Data"} |-> IF n = "Config" THEN config ELSE data]]

\* Config: tag "b", portfolio "A", no colours
miniConfig ==
    << <<Str(wTag), blank, Str(PORTFOLIO), blank>>,
       <<Str(<<"b">>), blank, Str(<<"A">>), blank>> >>

miniHeader == <<Str(PORTFOLIO), Str(TAGS), Str(MEASURES)>>

\* Config of the tag sessions: tags "A" and "b"
tagConfig ==
    << <<Str(wTag), blank, Str(PORTFOLIO), blank>>,
       <<Str(<<"A">>), blank, blank, blank>>,
       <<Str(<<"b">>), blank, blank, blank>> >>

TagAlphabet == {"a", "A", "b", ",", " "}

\* a sheet with one record, whose Tags cell is cell
tagBook(cell) ==
    miniBook(tagConfig, <<miniHeader, <<Str(<<"a">>), Str(cell), Str(<<"m">>)>> >>)

TagWorkbooks == {tagBook(cell) : cell \in StringsUpTo(TagAlphabet, MaxCellLen)}

InitTag == InitWith(TagWorkbooks)

NextTag ==
    \/ LoadResolve
    \/ LoadReject
    \/ \E v \in autocompleteValues(tags, tagOptions) : changeTags(v)
    \/ \E p \in chipsShown(TAGS) : toggleTag(p)
    \/ \E p \in Range(tags) : deleteTag(p)

\* Sessions on a one-record sheet whose Tags cell is any short string
SpecTag == InitTag /\ [][NextTag]_vars

\* The data rows of the text and row sessions: (Portfolio, Tags, Measures)
RowPool ==
    { <<Str(<<"a">>), Str(<<"b">>), Str(<<"A","1">>)>>,
      <<Str(<<"b",","," ","A">>), blank, Str(<<"b","a">>)>>,
      <<blank, Str(<<"a",",","b">>), Num(<<"1","1">>)>> }

QueryAlphabet == {"a", "B", "1"}

TextWorkbooks == {miniBook(miniConfig, <<miniHeader, row>>) : row \in RowPool}

InitText == InitWith(TextWorkbooks)

Selecting ==
    \/ \E v \in autocompleteValues(portfolios, portfolioOptions) : changePortfolios(v)
    \/ \E v \in autocompleteValues(tags, tagOptions) : changeTags(v)
    \/ \E p \in chipsShown(PORTFOLIO) : togglePortfolio(p)
    \/ \E p \in chipsShown(TAGS) : toggleTag(p)
    \/ \E p \in Range(portfolios) : deletePortfolio(p)
    \/ \E p \in Range(tags) : deleteTag(p)

NextText ==
    \/ LoadResolve
    \/ LoadReject
    \/ Selecting
    \/ \E q \in StringsUpTo(QueryAlphabet, MaxQueryLen) : setQuery(q)

\* Sessions on a one-record sheet with any short query typed
SpecText == InitText /\ [][NextText]_vars

RowWorkbooks ==
    {miniBook(miniConfig, <<miniHeader>> \o data) : data \in SeqsUpTo(RowPool, MaxRows)}

InitRows == InitWith(RowWorkbooks)

NextRows ==
    \/ LoadResolve
    \/ LoadReject
    \/ Selecting
    \/ \E q \in {<<>>, <<"1">>, <<"B">>} : setQuery(q)

\* Sessions on sheets of one to MaxRows records
SpecRows == InitRows /\ [][NextRows]_vars

-----------------------------------------------------------------------------
(* Claims on the generated sessions                                        *)

\* C5: the tag predicate is the portfolio predicate's logic on the Tags
\* field: a record passes exactly when no tag is selected or some selected
\* tag, trimmed and lower-cased, equals some comma-separated part of its Tags
\* field, trimmed and lower-cased.
TagPredicateMatchesAnyPart ==
    \A ti \in AllRecords :
        ~tagRejects(recordAt(ti), tags)
            <=> anySelectedMatches(recordAt(ti), TAGS, tags)

\* A tag is selected and a record passes though no raw part of its Tags cell
\* is a selected tag as written: the match rests on the normalization.
TagMatchedByNormalization ==
    /\ tags # <<>>
    /\ \E ti \in AllRecords :
           /\ ~tagRejects(recordAt(ti), tags)
           /\ Range(split(stringOf(get(recordAt(ti), TAGS)), ",")) \cap Range(tags) = {}

\* needle occurs in hay, character by character
occursIn(needle, hay) ==
    \E i \in 0..Len(hay) :
        /\ i + Len(needle) <= Len(hay)
        /\ \A j \in 1..Len(needle) : hay[i + j] = needle[j]

\* C6: the free-text predicate is active only for a non-empty query, and
\* then a record passes exactly when the lower-cased query occurs in the
\* lower-cased string form of one of its field values; the filter output is
\* exactly the records passing the portfolio, tag and free-text predicates.
FilterIsConjunctionOfPredicates ==
    /\ \A ti \in AllRecords :
           ~queryRejects(recordAt(ti), query)
               <=> \/ query = <<>>
                   \/ \E f \in DOMAIN recordAt(ti) :
                          occursIn(toLowerCase(query),
                                   toLowerCase(stringOf(recordAt(ti)[f])))
    /\ \A t \in DOMAIN rowsByTab :
           filterRows(rowsByTab[t], portfolios, tags, query)
               = SelectSeq(rowsByTab[t],
                           LAMBDA r : /\ anySelectedMatches(r, PORTFOLIO, portfolios)
                                      /\ anySelectedMatches(r, TAGS, tags)
                                      /\ \/ query = <<>>
                                         \/ \E f \in DOMAIN r :
                                                occursIn(toLowerCase(query),
                                                         toLowerCase(stringOf(r[f]))))

\* All three predicates are active, the query is not in lower case, it occurs
\* in no Measures value, and a record still passes.
AllPredicatesActiveAndPassed ==
    /\ portfolios # <<>> /\ tags # <<>>
    /\ query # <<>> /\ query # toLowerCase(query)
    /\ filtered # <<>>
    /\ \A i \in DOMAIN filtered :
           ~occursIn(toLowerCase(query), toLowerCase(stringOf(get(filtered[i], MEASURES))))

\* out is in picked out of in by a strictly increasing choice of positions
isSubsequence(out, in) ==
    \E pos \in [1..Len(out) -> 1..Len(in)] :
        /\ \A i \in 1..Len(out) : out[i] = in[pos[i]]
        /\ \A i, j \in 1..Len(out) : i < j => pos[i] < pos[j]

\* C7: the filter output is an order-preserving subsequence of its input:
\* each output record is an input record, unaltered, taken once, in the
\* input's order.
FilterOutputIsSubsequence ==
    \A t \in DOMAIN rowsByTab :
        isSubsequence(filterRows(rowsByTab[t], portfolios, tags, query), rowsByTab[t])

\* Of three records the filter keeps the first and the last.
FilterKeepsFirstAndLast ==
    /\ Len(rows) = 3
    /\ (portfolios # <<>> \/ tags # <<>> \/ query # <<>>)
    /\ filtered = <<rows[1], rows[3]>>

-----------------------------------------------------------------------------
(* Claims on grouping                                                      *)

RECURSIVE flatten(_)
flatten(groups) ==
    IF groups = <<>> THEN <<>> ELSE Head(groups).items \o flatten(Tail(groups))

\* C8: for every record the group key computation gives the key of the first
\* of Category, Subcategory, Measures whose trimmed text starts with two
\* dot-separated integer runs, and the fallback key when none does.
GroupKeyIsFirstMatch ==
    \A ti \in AllRecords :
        groupKey(recordAt(ti)) = [threw |-> FALSE, key |-> expectedKey(recordAt(ti))]

\* C9: grouping is idempotent: grouping the buckets of the grouping,
\* concatenated in bucket order, gives the same buckets in the same order.
GroupingIsIdempotent ==
    /\ ~grouped.threw
    /\ groupBy(flatten(grouped.groups)) = grouped

\* C10: grouping is a stable partition of the filtered records: every
\* filtered record is in exactly one bucket, no bucket is empty, and each
\* bucket keeps the order of the filtered sequence.
GroupingIsStablePartition ==
    /\ ~grouped.threw
    /\ \A i \in DOMAIN filtered :
           Cardinality({g \in DOMAIN grouped.groups :
                           filtered[i] \in Range(grouped.groups[g].items)}) = 1
    /\ \A g \in DOMAIN grouped.groups :
           /\ grouped.groups[g].items # <<>>
           /\ grouped.groups[g].items
                  = SelectSeq(filtered, LAMBDA r : r \in Range(grouped.groups[g].items))


-----------------------------------------------------------------------------
(* Generated Config sheets                                                 *)

MaxCfgRows == 2      \* rows of a generated Config sheet below its first row

wGreen == <<"G","r","e","e","n">>
wblue == <<"b","l","u","e">>
weducation == <<"e","d","u","c","a","t","i","o","n">>
w112233 == <<"1","1","2","2","3","3">>

\* Rows of a Config sheet: (tag, tag colour, portfolio, portfolio colour).  The
\* third has its colour typed as the number 112233.
ConfigRowPool ==
    { <<Str(wBlue), Str(wE3F2FD), Str(wEducation), Str(w003399)>>,
      <<Str(wblue), blank, Str(weducation), Str(wFFE600)>>,
      <<blank, blank, Str(wLabour), Num(w112233)>>,
      <<Str(wGreen), blank, blank, blank>> }

cfgHeader == <<Str(wTag), Str(wTagColour), Str(PORTFOLIO), Str(wPortfolioColour)>>

cfgData ==
    << miniHeader, <<Str(wLabourEducation), Str(wBlue), Str(wPlan)>> >>

\* a workbook whose only sheet is a data sheet
noConfigBook == [SheetNames |-> <<"Data">>, Sheets |-> [n \in {"Data"} |-> cfgData]]

ConfigWorkbooks ==
    {miniBook(<<cfgHeader>> \o cfgRows, cfgData) :
        cfgRows \in SeqsUpTo(ConfigRowPool, MaxCfgRows)} \cup {noConfigBook}

InitConfig == InitWith(ConfigWorkbooks)

NextConfig ==
    \/ LoadResolve
    \/ LoadReject
    \/ Selecting

\* Sessions on workbooks with any short Config sheet, or none
SpecConfig == InitConfig /\ [][NextConfig]_vars

\* the rows of the Config sheet below its first row
configRows(workbook) ==
    IF "Config" \in DOMAIN workbook.Sheets /\ workbook.Sheets["Config"] # <<>>
    THEN Tail(workbook.Sheets["Config"]) ELSE <<>>

\* a cell that holds something other than white space
nonBlank(v) == v.k # "undefined" /\ strTrim(stringOf(v)) # <<>>

\* the normalized names of the rows that give a name in column nameCol and a
\* colour in column colourCol (0-based)
suppliedColourKeys(workbook, nameCol, colourCol) ==
    {toLowerCase(strTrim(stringOf(at(configRows(workbook)[i], nameCol)))) :
        i \in {n \in DOMAIN configRows(workbook) :
                  /\ nonBlank(at(configRows(workbook)[n], nameCol))
                  /\ nonBlank(at(configRows(workbook)[n], colourCol))}}

\* C11: once the Config sheet has been processed, the keys of the portfolio
\* (tag) colour lookup are the normalized names of the rows below the first
\* that give a name in column C (A) and a colour in column D (B), and every
\* stored colour is a non-empty string that begins with "#".
ColourLookupsHoldSuppliedColours ==
    load = "resolved" =>
        /\ DOMAIN portfolioColours = suppliedColourKeys(wb, 2, 3)
        /\ DOMAIN tagColours = suppliedColourKeys(wb, 0, 1)
        /\ \A k \in DOMAIN portfolioColours : startsWith(portfolioColours[k], <<"#">>)
        /\ \A k \in DOMAIN tagColours : startsWith(tagColours[k], <<"#">>)

\* no two entries of arr are equal after trimming and case-folding
noNormalizedDuplicates(arr) ==
    \A i, j \in DOMAIN arr :
        toLowerCase(strTrim(arr[i])) = toLowerCase(strTrim(arr[j])) => i = j

\* C12: the option lists exposed after the load are sorted and hold no two
\* entries that are equal after trimming and case-folding.
OptionListsAreDeduplicated ==
    load = "resolved" =>
        /\ \A i \in 1..(Len(portfolioOptions) - 1) :
               strLess(portfolioOptions[i], portfolioOptions[i + 1])
        /\ \A i \in 1..(Len(tagOptions) - 1) :
               strLess(tagOptions[i], tagOptions[i + 1])
        /\ noNormalizedDuplicates(portfolioOptions)
        /\ noNormalizedDuplicates(tagOptions)

\* C13: at every step the selected portfolios and the selected tags hold no
\* two entries equal after normalization, and when a selection grows the
\* entries it already held keep their value and their position.
SelectionsHoldNoNormalizedDuplicates ==
    [][/\ noNormalizedDuplicates(portfolios')
       /\ noNormalizedDuplicates(tags')
       /\ Len(portfolios') > Len(portfolios)
              => SubSeq(portfolios', 1, Len(portfolios)) = portfolios
       /\ Len(tags') > Len(tags)
              => SubSeq(tags', 1, Len(tags)) = tags]_vars

\* The options offer two portfolios that differ only in letter case, one of
\* them is selected, and a second portfolio has been added after it.
SelectedAmongCaseVariants ==
    /\ ~noNormalizedDuplicates(portfolioOptions)
    /\ Len(portfolios) = 2
    /\ portfolios[1] \in Range(portfolioOptions)
    /\ \E i \in DOMAIN portfolioOptions :
           /\ portfolioOptions[i] # portfolios[1]
           /\ norm(portfolioOptions[i]) = norm(portfolios[1])

\* C14: a workbook with no sheet named Config ends its load in the failure
\* outcome: the notice is raised, loading is never cleared and no data sheet
\* becomes a tab.
MissingConfigIsFatal ==
    (load = "resolved" /\ "Config" \notin Range(wb.SheetNames)) =>
        /\ alerts = 1
        /\ loading
        /\ tabs = <<>>


\* C15: a failed load is never partial: once the failure notice has been
\* raised, the option lists, both colour lookups, the tab list and the
\* per-tab records still hold their initial empty values, the notice has
\* been raised once and the load is not running again.
FailedLoadIsNeverPartial ==
    alerts > 0 =>
        /\ portfolioOptions = <<>> /\ tagOptions = <<>>
        /\ portfolioColours = EmptyMap /\ tagColours = EmptyMap
        /\ tabs = <<>> /\ rowsByTab = EmptyMap
        /\ alerts = 1
        /\ load # "pending"


-----------------------------------------------------------------------------
(* Generated data sheets                                                   *)

wUpdated == <<"U","p","d","a","t","e","d">>
wUPDATE == <<"U","P","D","A","T","E">>
w2425 == <<"2","4","/","2","5">>
wOnTrack == <<"O","n"," ","T","r","a","c","k">>
wOnTrackPadded == <<" ","o","n"," ","t","r","a","c","k"," ">>
wOnTrackHyphen == <<"o","n","-","t","r","a","c","k">>
wLate == <<"L","a","t","e">>

\* Two header rows of seven columns: the first has a column named "id"
GridHeaders ==
    { <<Str(ID), Str(MEASURES), Str(CATEGORY), Str(MATERIALS), Str(wUpdated),
        Str(w2425), Str(TAGS)>>,
      <<Str(wNotes), Str(MEASURES), Str(CATEGORY), Str(MATERIALS), Str(wUPDATE),
        Str(w2425), Str(TAGS)>> }

\* Rows under those headers; the last is blank
GridRowPool ==
    { <<Str(<<"7">>), Str(wPlan), Str(wCurriculum), Str(<<"m">>), Str(<<"u">>),
        Str(wOnTrack), Str(wBlue)>>,
      <<Str(<<"x">>), Str(wBuild), blank, blank, blank, Str(wOnTrackPadded), blank>>,
      <<Str(<<"y">>), Str(wTrain), blank, blank, blank, Str(wOnTrackHyphen), blank>>,
      <<Str(<<"z">>), Str(wPlan), blank, blank, blank, Str(wLate), blank>>,
      <<blank, blank, Str(<<" ">>), blank, blank, blank, blank>> }

\* a title row, a header row and zero to MaxRows rows
GridWorkbooks ==
    {miniBook(miniConfig, << <<Str(wNationalStrategy)>>, header >> \o data) :
        header \in GridHeaders,
        data \in SeqsUpTo(GridRowPool, MaxRows) \cup {<<>>}}

InitGrid == InitWith(GridWorkbooks)

NextGrid ==
    \/ LoadResolve
    \/ LoadReject
    \/ \E p \in chipsShown(TAGS) : toggleTag(p)
    \/ \E p \in Range(tags) : deleteTag(p)
    \/ \E q \in {<<>>, <<"l","a">>} : setQuery(q)

\* Sessions on one data sheet of any few rows
SpecGrid == InitGrid /\ [][NextGrid]_vars

\* the rows of sheet n of the workbook below its header row that hold
\* something other than white space
contentRowsBelowHeader(n) ==
    LET raw == sheetToJson(wb, n)
        h == CHOOSE i \in DOMAIN raw : hasHeader(SubSeq(raw, 1, i))
    IN  {i \in DOMAIN raw : i > h /\ \E c \in DOMAIN raw[i] : nonBlank(raw[i][c])}

\* C16: in each sheet's records the id values are 0..n-1 in record order,
\* whatever the header row names its columns, and the records are as many
\* as the non-blank rows below the header.
IdsAreSequential ==
    \A t \in DOMAIN rowsByTab :
        /\ \A i \in DOMAIN rowsByTab[t] :
               get(rowsByTab[t][i], ID) = Num(natToString(i - 1))
        /\ Len(rowsByTab[t]) = Cardinality(contentRowsBelowHeader(t))

\* the field name contains "update" in some letter casing
namesUpdate(f) ==
    \E i \in 0..Len(f) :
        /\ i + Len(UPDATE) <= Len(f)
        /\ \A j \in DOMAIN UPDATE :
               f[i + j] \in {UPDATE[j], toUpperCaseChar(UPDATE[j])}

\* C17: the columns are the fields of the first record other than id,
\* Category, Materials and the fields whose name contains "Update" in any
\* casing: none of those is a column, no other field is dropped, and no
\* record gives no column.
ColumnsAreTheFieldsNotExcluded ==
    /\ rows = <<>> => columns = {}
    /\ rows # <<>> =>
           columns = (DOMAIN rows[1] \ {ID, CATEGORY, MATERIALS})
                         \ {f \in DOMAIN rows[1] : namesUpdate(f)}

\* The first record has the fields id, Category and Materials and a field
\* named UPDATE, and some fields are columns.
ColumnsDerivedFromMixedFields ==
    /\ rows # <<>>
    /\ {ID, CATEGORY, MATERIALS, wUPDATE} \subseteq DOMAIN rows[1]
    /\ columns # {}
    /\ columns # DOMAIN rows[1]

\* C18: in a column whose name is two digits, a slash and two digits, a cell
\* whose value equals a status name, letter case and surrounding white space
\* ignored, gets that status's colour, and every other value gets none.
StatusColourFollowsStatusName ==
    \A ti \in AllRecords :
        \A f \in DOMAIN recordAt(ti) :
            isStatusField(f) =>
                LET name == toLowerCase(strTrim(stringOf(recordAt(ti)[f])))
                IN  statusBackground(recordAt(ti)[f])
                        = IF name \in DOMAIN STATUS_BG THEN STATUS_BG[name] ELSE "none"


-----------------------------------------------------------------------------
(* Generated tag names                                                     *)

MaxNameLen == 4      \* characters of a generated tag name

TitleAlphabet == {"i", "T", "x", " ", "-"}

wITstrategy == <<"I","T"," ","s","t","r","a","t","e","g","y">>
witSTRATEGY == <<"i","t"," ","S","T","R","A","T","E","G","Y">>
wITStrategy == <<"I","T"," ","S","t","r","a","t","e","g","y">>

\* the tag names a Config sheet can give: any short string, and two long ones
TagNames == StringsUpTo(TitleAlphabet, MaxNameLen) \cup {wITstrategy, witSTRATEGY}

\* a Config sheet naming one tag
TitleWorkbooks ==
    {miniBook(<<cfgHeader, <<Str(name), blank, blank, blank>> >>, cfgData) :
        name \in TagNames}

InitTitle == InitWith(TitleWorkbooks)

NextTitle ==
    \/ LoadResolve
    \/ LoadReject
    \/ \E v \in autocompleteValues(tags, tagOptions) : changeTags(v)
    \/ \E p \in Range(tags) : deleteTag(p)

\* Sessions on a Config sheet naming one tag, the tag selected and removed
SpecTitle == InitTitle /\ [][NextTitle]_vars

\* the strings of a state title-casing applies to: the tag name as written in
\* the Config sheet, the tag options and the selected tags
titleInputs ==
    {configRows(wb)[1][1].s} \cup Range(tagOptions) \cup Range(tags)

\* position i of s is in a word whose lower-cased form is one of the six
\* special words; a word is a maximal run of letters, digits and underscores
wordAround(s, i) ==
    LET a == CHOOSE n \in 1..i :
                 /\ \A k \in n..i : isWordChar(s[k])
                 /\ (n > 1 => ~isWordChar(s[n - 1]))
        b == CHOOSE n \in i..Len(s) :
                 /\ \A k \in i..n : isWordChar(s[k])
                 /\ (n < Len(s) => ~isWordChar(s[n + 1]))
    IN  [first |-> a, text |-> SubSeq(s, a, b)]
isSpecialWord(w) ==
    toLowerCase(w) \in {<<"i","t">>, <<"n","c">>, <<"i","c">>, <<"p","r">>,
                        <<"h","r">>, <<"u","e">>}

\* what title-casing makes of the trimmed string s, character by character
titleCased(s) ==
    [i \in 1..Len(s) |->
        IF ~isWordChar(s[i]) THEN s[i]
        ELSE IF isSpecialWord(wordAround(s, i).text) \/ wordAround(s, i).first = i
             THEN toUpperCaseChar(s[i])
             ELSE toLowerCaseChar(s[i])]

\* C19: title-casing is idempotent, it writes the words it, nc, ic, pr, hr
\* and ue in upper case whatever their casing and every other word with a
\* capital first letter and the rest in lower case; "IT strategy" and "it
\* STRATEGY" both give "IT Strategy".
TitleCasingIsIdempotent ==
    \A x \in titleInputs :
        /\ title(title(x)) = title(x)
        /\ title(x) = titleCased(strTrim(x))
        /\ x \in {wITstrategy, witSTRATEGY} => title(x) = wITStrategy
        /\ \A i \in DOMAIN tags : selectedTagLabels[i] = titleCased(tags[i])

\* The tag "iT x" is selected and its chip reads "IT X".
SpecialWordTitleCased ==
    /\ tags = << <<"i","T"," ","x">> >>
    /\ selectedTagLabels = << <<"I","T"," ","X">> >>


-----------------------------------------------------------------------------
(* Claims on the chip toggles                                              *)

\* some entry of arr equals label after trimming and case-folding
holdsNormalized(arr, label) ==
    \E i \in DOMAIN arr :
        toLowerCase(strTrim(arr[i])) = toLowerCase(strTrim(label))

\* the entries of arr that do not equal label after trimming and case-folding
othersThan(arr, label) ==
    SelectSeq(arr, LAMBDA e : toLowerCase(strTrim(e)) # toLowerCase(strTrim(label)))

\* what a toggle of label must make of the selection before, given after
flipsMembership(before, after, label) ==
    /\ holdsNormalized(after, label) <=> ~holdsNormalized(before, label)
    /\ othersThan(after, label) = othersThan(before, label)
    /\ Range(toggle(after, label)) = Range(before)

\* C20: a chip toggle flips the membership of its label by normalized
\* equality, leaves every other entry in place, is undone by toggling the
\* same label again, and changes neither the query nor the other selection.
ChipToggleFlipsMembership ==
    [][/\ \A label \in chipsShown(PORTFOLIO) :
              togglePortfolio(label) =>
                  /\ flipsMembership(portfolios, portfolios', label)
                  /\ query' = query /\ tags' = tags
       /\ \A label \in chipsShown(TAGS) :
              toggleTag(label) =>
                  /\ flipsMembership(tags, tags', label)
                  /\ query' = query /\ portfolios' = portfolios]_vars

=============================================================================
